---- MODULE Spec2Model ----
(***************************************************************************)
(* Model of the github-team-validator programs.                            *)
(*                                                                         *)
(* The repository holds three entry points, each a sequential program:     *)
(*   "validator"  src/cmd/validator/main.go  event-driven, files from the  *)
(*                command line, raw HTTP calls, comments posted on the PR;  *)
(*   "lgtm"       src/main.go:22-121   one fixed namespace file, go-github  *)
(*                client, LGTM approval scan;                               *)
(*   "api"        src/main.go:135-260  changed files listed through the     *)
(*                hosting API, line-scan annotation extraction.             *)
(*                                                                         *)
(* Strings are sequences of tokens (a token is a run of characters that the *)
(* programs never cut: "platform", ".yaml", "team:", one "/" or one " ").   *)
(* Answers of the hosting API, of the file system and of the YAML parser    *)
(* are inputs: each call draws its answer from a small set.                 *)
(***************************************************************************)
EXTENDS Integers, Sequences, FiniteSets, TLC

VARIABLES
    missingInput,  \* the required input the run was started without, or "none"
    variant,       \* which entry point runs
    pc,            \* position of the program
    args,          \* os.Args[1:] (validator) / files listed for the PR (api)
    prComments,    \* comments already on the pull request (lgtm)
    idx,           \* index of the file the loop is at
    cur,           \* the file being processed: annotations, lookups made, outcome
    hasErrors,     \* validator: the process-wide failure flag
    exitCode,      \* -1 while running, then the process exit status
    pastSetup,     \* the run got past reading the inputs / event payload
    processed,     \* indices of the files whose processing started
    failed,        \* indices of the files that produced a validation failure
    failComments,  \* per file index: failure comments attempted for it
    successComments, \* success comments attempted
    postFailed     \* some comment post did not answer 201

vars == <<missingInput, variant, pc, args, prComments, idx, cur, hasErrors, exitCode,
          pastSetup, processed, failed, failComments, successComments,
          postFailed>>

----------------------------------------------------------------------------
(* Bounds of the model *)

MaxFiles == 2
MaxComments == 2

(* HTTP status codes the programs compare against *)
StatusOK == 200
StatusNotFound == 404
StatusCreated == 201

----------------------------------------------------------------------------
(* Go's strings package, on token sequences *)

HasPrefix(s, p) == Len(s) >= Len(p) /\ SubSeq(s, 1, Len(p)) = p

HasSuffix(s, p) == Len(s) >= Len(p) /\ SubSeq(s, Len(s) - Len(p) + 1, Len(s)) = p

TrimPrefix(s, p) == IF HasPrefix(s, p) THEN SubSeq(s, Len(p) + 1, Len(s)) ELSE s

RECURSIVE TrimLeft(_)
TrimLeft(s) == IF s # <<>> /\ Head(s) = " " THEN TrimLeft(Tail(s)) ELSE s

RECURSIVE TrimRight(_)
TrimRight(s) ==
    IF s # <<>> /\ s[Len(s)] = " " THEN TrimRight(SubSeq(s, 1, Len(s) - 1)) ELSE s

TrimSpace(s) == TrimRight(TrimLeft(s))

\* strings.Split(s, "/"): the segments between the separators; one segment,
\* possibly empty, when there is no separator
RECURSIVE Split(_)
Split(s) ==
    IF \E i \in 1..Len(s) : s[i] = "/"
    THEN LET i == CHOOSE k \in 1..Len(s) :
                     s[k] = "/" /\ \A j \in 1..(k - 1) : s[j] # "/"
         IN  <<SubSeq(s, 1, i - 1)>> \o Split(SubSeq(s, i + 1, Len(s)))
    ELSE <<s>>

----------------------------------------------------------------------------
(* Inputs *)

Paths == { <<"namespaces/", "a", ".yaml">>,
           <<"docs/", "b", ".yml">>,
           <<"namespaces/", "c", ".txt">> }

SeqsUpTo(S, n) == UNION { [1..k -> S] : k \in 0..n }

\* values of the team annotation: absent or empty, blank, a team slug
TeamValues == { <<>>, <<" ">>, <<"platform">> }

GitHubPrefix == <<"https:", "/", "/", "github.com", "/">>

\* values of the source-code annotation: absent or empty, a bare name, an
\* owner/repo pair, a URL with one path segment, a URL with owner and repo
SourceValues == { <<>>,
                  <<"widgets">>,
                  <<"acme", "/", "widgets">>,
                  GitHubPrefix \o <<"widgets">>,
                  GitHubPrefix \o <<"acme", "/", "widgets">> }

\* answers of the team-membership endpoint: status 0 stands for a transport
\* error; a 200 answer carries the membership state
MemberAnswers ==
    { [status |-> 0, state |-> "none"],
      [status |-> StatusNotFound, state |-> "none"],
      [status |-> 500, state |-> "none"],
      [status |-> StatusOK, state |-> "active"],
      [status |-> StatusOK, state |-> "pending"] }

\* answers of the repository endpoint: a 200 answer carries the private flag
RepoAnswers ==
    { [status |-> 0, private |-> FALSE],
      [status |-> StatusNotFound, private |-> FALSE],
      [status |-> 403, private |-> FALSE],
      [status |-> StatusOK, private |-> FALSE],
      [status |-> StatusOK, private |-> TRUE] }

\* the required inputs a run can be started without: the API token, the
\* organization, the pull-request number (lgtm, api) or author (validator)
RequiredInputs == {"token", "organization", "pr"}

\* comments already on the pull request: the body, and the answer the
\* membership endpoint gives for the comment's author
CommentValues ==
    { [body |-> <<"LGTM">>, ans |-> [status |-> StatusOK, state |-> "active"]],
      [body |-> <<"LGTM">>, ans |-> [status |-> StatusNotFound, state |-> "none"]],
      [body |-> <<"nice", " ", "work">>, ans |-> [status |-> StatusOK, state |-> "active"]] }

\* the one file the lgtm program reads
TestNamespacePath == <<"namespaces/", "test-namespace", ".yaml">>

\* stands for a key the document does not have
Absent == <<"<absent>">>

\* a namespace document as lines of text; Absent leaves the key out
Doc(team, source) ==
    << <<"metadata:">>, <<" ", "annotations:">> >>
    \o (IF team = Absent THEN <<>>
        ELSE << <<" ", " ", "team:", " ">> \o team >>)
    \o (IF source = Absent THEN <<>>
        ELSE << <<" ", " ", "source-code:", " ">> \o source >>)

\* answers of the comment-creation endpoint
PostAnswers == { 0, StatusCreated, 500 }

\* the organization the run is given (GITHUB_REPOSITORY_OWNER)
OrgName == <<"acme">>

NoMember == [status |-> -1, state |-> "none"]
NoRepo == [status |-> -1, private |-> FALSE]

\* the record kept for the file being processed: what the document declares
\* (declTeam, declSource), what the program extracted (Team, SourceCode), the
\* lookups made and their answers, whether the membership gate let the file
\* through, the owner and name the repository lookup was made for, and how
\* the file ended
NoFile == [ file |-> 0, readOK |-> FALSE, parsed |-> FALSE,
            declTeam |-> Absent, declSource |-> Absent,
            Team |-> <<>>, SourceCode |-> <<>>,
            memberAns |-> NoMember, repoAns |-> NoRepo,
            memberCalls |-> 0, repoCalls |-> 0, gate |-> "none",
            repoOwner |-> <<>>, repoName |-> <<>>,
            outcome |-> "none", msg |-> "" ]

\* the string a YAML document gives a field: the zero value for a missing key
YAMLString(v) == IF v = Absent THEN <<>> ELSE v

----------------------------------------------------------------------------
(* src/cmd/validator/main.go *)

IsYAMLPath(filePath) ==
    HasSuffix(filePath, <<".yaml">>) \/ HasSuffix(filePath, <<".yml">>)

\* the error validateTeamMembership returns, "nil" for none
validateTeamMembership(ans) ==
    IF ans.status = 0 THEN "Failed to check team membership"
    ELSE IF ans.status = StatusNotFound THEN "Team not found or user is not a member"
    ELSE IF ans.status # StatusOK THEN "Failed to check team membership. Status"
    ELSE "nil"

\* the error checkRepositoryStatus returns, "nil" for none
checkRepositoryStatus(ans) ==
    IF ans.status = 0 THEN "Failed to check repository status"
    ELSE IF ans.status = StatusNotFound THEN "Repository not found"
    ELSE IF ans.status # StatusOK THEN "Failed to check repository status. Status"
    ELSE "nil"

\* the error commentOnPR returns, "nil" for none
commentOnPR(post) ==
    IF post = 0 THEN "failed to post comment"
    ELSE IF post # StatusCreated THEN "failed to create comment"
    ELSE "nil"

TeamAnnotationMissing(ns) == ns.Team = <<>>

\* a slip that tests the wrong field
SourceCodeAnnotationMissingWrongField(ns) == ns.Team = <<>>

SourceCodeAnnotationMissing(ns) == ns.SourceCode = <<>>

\* main calls commentOnPR as a statement: the error it returns is dropped and
\* the failure flag is what the branch sets it to
\* a slip that counts a failed post as a validation failure
FlagAfterCommentPropagated(flag, err) == flag \/ err # "nil"

FlagAfterComment(flag, err) == flag

\* `continue` after a failed file: back to the head of the loop
\* a slip that writes `break` for `continue`
AfterFailedFileBreak == "v_finish"

AfterFailedFile == "v_loop"

\* a slip that drops the guard of the success comment
ShouldPostSuccessAlways(flag) == TRUE

ShouldPostSuccess(flag) == ~flag

\* a slip that drops the final os.Exit(1)
ExitStatusAlwaysZero(flag) == 0

ExitStatus(flag) == IF flag THEN 1 ELSE 0

\* the repository checkRepositoryStatus asks for: repos/<orgName>/<repoName>,
\* with the whole annotation as the name
ValidatorRepoTarget(sourceCode) == [owner |-> OrgName, name |-> sourceCode]

\* a failing branch of the loop body: comment, set the flag, continue
FailFile(c, msg, post) ==
    /\ cur' = [c EXCEPT !.outcome = "fail", !.msg = msg]
    /\ failComments' = [failComments EXCEPT ![idx] = @ + 1]
    /\ postFailed' = (postFailed \/ commentOnPR(post) # "nil")
    /\ hasErrors' = FlagAfterComment(TRUE, commentOnPR(post))
    /\ failed' = failed \cup {idx}
    /\ idx' = idx + 1
    /\ pc' = AfterFailedFile

\* os.ReadFile(eventPath); log.Fatalf exits with status 1
v_readEvent ==
    /\ pc = "v_readEvent"
    /\ \E ok \in BOOLEAN :
          IF ok THEN pc' = "v_parseEvent" /\ exitCode' = exitCode
                ELSE pc' = "done" /\ exitCode' = 1
    /\ UNCHANGED <<missingInput, variant, args, prComments, idx, cur, hasErrors, pastSetup,
                   processed, failed, failComments, successComments, postFailed>>

\* a slip that logs the parse error with log.Printf and goes on to the files
v_parseEventLogOnly ==
    /\ pc = "v_parseEvent"
    /\ \E ok \in BOOLEAN :
          /\ pc' = "v_loop"
          /\ exitCode' = exitCode
          /\ pastSetup' = ok
    /\ UNCHANGED <<missingInput, variant, args, prComments, idx, cur, hasErrors,
                   processed, failed, failComments, successComments, postFailed>>

\* json.Unmarshal(eventData, &event)
v_parseEvent ==
    /\ pc = "v_parseEvent"
    /\ \E ok \in BOOLEAN :
          IF ok THEN pc' = "v_loop" /\ exitCode' = exitCode /\ pastSetup' = TRUE
                ELSE pc' = "done" /\ exitCode' = 1 /\ pastSetup' = pastSetup
    /\ UNCHANGED <<missingInput, variant, args, prComments, idx, cur, hasErrors,
                   processed, failed, failComments, successComments, postFailed>>

\* head of `for _, filePath := range os.Args[1:]` and the suffix filter
v_loop ==
    /\ pc = "v_loop"
    /\ IF idx > Len(args)
       THEN /\ pc' = "v_finish"
            /\ UNCHANGED <<idx, cur, processed>>
       ELSE IF ~IsYAMLPath(args[idx])
       THEN /\ idx' = idx + 1
            /\ UNCHANGED <<pc, cur, processed>>
       ELSE /\ pc' = "v_read"
            /\ cur' = [NoFile EXCEPT !.file = idx, !.outcome = "running"]
            /\ processed' = processed \cup {idx}
            /\ idx' = idx
    /\ UNCHANGED <<missingInput, variant, args, prComments, hasErrors, exitCode, pastSetup,
                   failed, failComments, successComments, postFailed>>

\* os.ReadFile(filePath)
v_read ==
    /\ pc = "v_read"
    /\ \E ok \in BOOLEAN, post \in PostAnswers :
          IF ok
          THEN /\ pc' = "v_parse"
               /\ cur' = [cur EXCEPT !.readOK = TRUE]
               /\ UNCHANGED <<idx, hasErrors, failed, failComments, postFailed>>
          ELSE FailFile(cur, "Failed to read file", post)
    /\ UNCHANGED <<missingInput, variant, args, prComments, exitCode, pastSetup, processed,
                   successComments>>

\* yaml.Unmarshal(data, &ns): an error, or the two annotations of the document
v_parse ==
    /\ pc = "v_parse"
    /\ \/ \E post \in PostAnswers : FailFile(cur, "Invalid YAML", post)
       \/ \E team \in TeamValues \cup {Absent},
             source \in SourceValues \cup {Absent} :
             /\ cur' = [cur EXCEPT !.parsed = TRUE,
                                   !.declTeam = team, !.declSource = source,
                                   !.Team = YAMLString(team),
                                   !.SourceCode = YAMLString(source)]
             /\ pc' = "v_team"
             /\ UNCHANGED <<idx, hasErrors, failed, failComments, postFailed>>
    /\ UNCHANGED <<missingInput, variant, args, prComments, exitCode, pastSetup, processed,
                   successComments>>

\* if ns.Metadata.Annotations.Team == ""
v_team ==
    /\ pc = "v_team"
    /\ IF TeamAnnotationMissing(cur)
       THEN \E post \in PostAnswers : FailFile(cur, "Team annotation is missing", post)
       ELSE /\ pc' = "v_source"
            /\ UNCHANGED <<idx, cur, hasErrors, failed, failComments, postFailed>>
    /\ UNCHANGED <<missingInput, variant, args, prComments, exitCode, pastSetup, processed,
                   successComments>>

\* if ns.Metadata.Annotations.SourceCode == ""
v_source ==
    /\ pc = "v_source"
    /\ IF SourceCodeAnnotationMissing(cur)
       THEN \E post \in PostAnswers :
               FailFile(cur, "Source code repository annotation is missing", post)
       ELSE /\ pc' = "v_member"
            /\ UNCHANGED <<idx, cur, hasErrors, failed, failComments, postFailed>>
    /\ UNCHANGED <<missingInput, variant, args, prComments, exitCode, pastSetup, processed,
                   successComments>>

\* a slip that leaves out the `continue` of the membership branch: the
\* failure is commented and flagged, and the repository check still runs
v_memberNoContinue ==
    /\ pc = "v_member"
    /\ \E ans \in MemberAnswers, post \in PostAnswers :
          LET err == validateTeamMembership(ans)
              c   == [cur EXCEPT !.memberAns = ans, !.memberCalls = @ + 1]
          IN  IF err # "nil"
              THEN /\ cur' = [c EXCEPT !.msg = err]
                   /\ failComments' = [failComments EXCEPT ![idx] = @ + 1]
                   /\ postFailed' = (postFailed \/ commentOnPR(post) # "nil")
                   /\ hasErrors' = TRUE
                   /\ failed' = failed \cup {idx}
                   /\ idx' = idx
                   /\ pc' = "v_repo"
              ELSE /\ cur' = [c EXCEPT !.gate = "passed"]
                   /\ pc' = "v_repo"
                   /\ UNCHANGED <<idx, hasErrors, failed, failComments, postFailed>>
    /\ UNCHANGED <<missingInput, variant, args, prComments, exitCode, pastSetup,
                   processed, successComments>>

\* validateTeamMembership(team, prAuthor, orgName, token)
v_member ==
    /\ pc = "v_member"
    /\ \E ans \in MemberAnswers, post \in PostAnswers :
          LET err == validateTeamMembership(ans)
              c   == [cur EXCEPT !.memberAns = ans, !.memberCalls = @ + 1]
          IN  IF err # "nil"
              THEN FailFile(c, err, post)
              ELSE /\ cur' = [c EXCEPT !.gate = "passed"]
                   /\ pc' = "v_repo"
                   /\ UNCHANGED <<idx, hasErrors, failed, failComments, postFailed>>
    /\ UNCHANGED <<missingInput, variant, args, prComments, exitCode, pastSetup, processed,
                   successComments>>

\* checkRepositoryStatus(sourceCode, orgName, token); a file that passes it
\* ends the loop body without a comment
v_repo ==
    /\ pc = "v_repo"
    /\ \E ans \in RepoAnswers, post \in PostAnswers :
          LET err == checkRepositoryStatus(ans)
              target == ValidatorRepoTarget(cur.SourceCode)
              c   == [cur EXCEPT !.repoAns = ans, !.repoCalls = @ + 1,
                                 !.repoOwner = target.owner,
                                 !.repoName = target.name]
          IN  IF err # "nil"
              THEN FailFile(c, err, post)
              ELSE /\ cur' = [c EXCEPT !.outcome = "pass"]
                   /\ idx' = idx + 1
                   /\ pc' = "v_loop"
                   /\ UNCHANGED <<hasErrors, failed, failComments, postFailed>>
    /\ UNCHANGED <<missingInput, variant, args, prComments, exitCode, pastSetup, processed,
                   successComments>>

\* if !hasErrors { commentOnPR("All ... validations passed!") }
v_finish ==
    /\ pc = "v_finish"
    /\ IF ShouldPostSuccess(hasErrors)
       THEN \E post \in PostAnswers :
               /\ successComments' = successComments + 1
               /\ postFailed' = (postFailed \/ commentOnPR(post) # "nil")
               /\ hasErrors' = FlagAfterComment(hasErrors, commentOnPR(post))
       ELSE UNCHANGED <<successComments, postFailed, hasErrors>>
    /\ pc' = "v_exit"
    /\ UNCHANGED <<missingInput, variant, args, prComments, idx, cur, exitCode, pastSetup,
                   processed, failed, failComments>>

\* if hasErrors { os.Exit(1) }; returning from main exits with status 0
v_exit ==
    /\ pc = "v_exit"
    /\ exitCode' = ExitStatus(hasErrors)
    /\ pc' = "done"
    /\ UNCHANGED <<missingInput, variant, args, prComments, idx, cur, hasErrors, pastSetup,
                   processed, failed, failComments, successComments, postFailed>>

----------------------------------------------------------------------------
(* src/main.go:1-121, the program with the LGTM approval scan *)

\* go-github answers a lookup that did not return 2xx with an error and a nil
\* record; a 2xx answer gives the record
GetTeamMembershipBySlug(ans) ==
    [ err |-> ans.status # StatusOK,
      membership |-> IF ans.status = StatusOK THEN ans.state ELSE "nil" ]

\* client.Repositories.Get
RepositoriesGet(ans) ==
    [ err |-> ans.status # StatusOK,
      private |-> ans.status = StatusOK /\ ans.private ]

\* strings.Contains(comment.GetBody(), "LGTM")
ContainsLGTM(body) == \E i \in 1..Len(body) : body[i] = "LGTM"

\* the scan over the listed comments: the first LGTM comment whose author's
\* membership lookup returns a record sets hasApproval
RECURSIVE HasApproval(_)
HasApproval(comments) ==
    IF comments = <<>> THEN FALSE
    ELSE LET comment == Head(comments)
             isApprover == GetTeamMembershipBySlug(comment.ans)
         IN  IF ContainsLGTM(comment.body)
                /\ ~isApprover.err /\ isApprover.membership # "nil"
             THEN TRUE
             ELSE HasApproval(Tail(comments))

\* the test that sends the author to the "need LGTM" exit
AuthorRejected(isMember) == isMember.err \/ isMember.membership = "nil"

\* the guard of the approval scan
NeedsApproval(isMember) == isMember.membership = "nil"

\* len(parts) < 3 on the unstripped reference
InvalidSourceCodeURL(sourceCode) == Len(Split(sourceCode)) < 3

\* repoOwner and repoName: the last two parts of the split reference
LastTwoParts(sourceCode) ==
    LET parts == Split(sourceCode)
    IN  [owner |-> parts[Len(parts) - 1], name |-> parts[Len(parts)]]

\* os.Exit(1) out of a check of the current file
Abort(c, msg) ==
    /\ cur' = [c EXCEPT !.outcome = "fail", !.msg = msg]
    /\ failed' = failed \cup {idx}
    /\ exitCode' = 1
    /\ pc' = "done"

\* a comment on the pull request followed by os.Exit(1)
CommentAndAbort(c, msg, post) ==
    /\ Abort(c, msg)
    /\ failComments' = [failComments EXCEPT ![idx] = @ + 1]
    /\ postFailed' = (postFailed \/ post # StatusCreated)

\* os.ReadFile("namespaces/test-namespace.yaml")
a_read ==
    /\ pc = "a_read"
    /\ \E ok \in BOOLEAN :
          IF ok THEN /\ pc' = "a_parse"
                     /\ cur' = [cur EXCEPT !.outcome = "running", !.readOK = TRUE]
                     /\ processed' = processed \cup {idx}
                     /\ UNCHANGED <<exitCode, failed>>
                ELSE /\ Abort(cur, "Error reading namespace file")
                     /\ UNCHANGED processed
    /\ UNCHANGED <<missingInput, variant, args, prComments, idx, hasErrors, pastSetup,
                   failComments, successComments, postFailed>>

\* yaml.Unmarshal, then the two annotations read from the map
a_parse ==
    /\ pc = "a_parse"
    /\ \/ Abort(cur, "Error parsing YAML")
       \/ \E team \in TeamValues \cup {Absent},
             source \in SourceValues \cup {Absent} :
             /\ cur' = [cur EXCEPT !.parsed = TRUE,
                                   !.declTeam = team, !.declSource = source,
                                   !.Team = YAMLString(team),
                                   !.SourceCode = YAMLString(source)]
             /\ pc' = "a_getPR"
             /\ UNCHANGED <<exitCode, failed>>
    /\ UNCHANGED <<missingInput, variant, args, prComments, idx, hasErrors, pastSetup,
                   processed, failComments, successComments, postFailed>>

\* client.PullRequests.Get
a_getPR ==
    /\ pc = "a_getPR"
    /\ \E ok \in BOOLEAN :
          IF ok THEN /\ pc' = "a_member"
                     /\ pastSetup' = TRUE
                     /\ UNCHANGED <<cur, exitCode, failed>>
                ELSE /\ Abort(cur, "Error getting PR")
                     /\ UNCHANGED pastSetup
    /\ UNCHANGED <<missingInput, variant, args, prComments, idx, hasErrors,
                   processed, failComments, successComments, postFailed>>

\* the author's membership lookup
a_member ==
    /\ pc = "a_member"
    /\ \E ans \in MemberAnswers, post \in PostAnswers :
          LET isMember == GetTeamMembershipBySlug(ans)
              c == [cur EXCEPT !.memberAns = ans, !.memberCalls = @ + 1]
          IN  IF AuthorRejected(isMember)
              THEN CommentAndAbort(c, "is not a member of team. Need LGTM", post)
              ELSE /\ cur' = [c EXCEPT !.gate = "passed"]
                   /\ pc' = "a_format"
                   /\ UNCHANGED <<exitCode, failed, failComments, postFailed>>
    /\ UNCHANGED <<missingInput, variant, args, prComments, idx, hasErrors, pastSetup,
                   processed, successComments>>

\* strings.Split(sourceCode, "/") and the length test
a_format ==
    /\ pc = "a_format"
    /\ IF InvalidSourceCodeURL(cur.SourceCode)
       THEN \E post \in PostAnswers :
               CommentAndAbort(cur, "Invalid source-code URL format", post)
       ELSE /\ pc' = "a_repo"
            /\ UNCHANGED <<cur, exitCode, failed, failComments, postFailed>>
    /\ UNCHANGED <<missingInput, variant, args, prComments, idx, hasErrors, pastSetup,
                   processed, successComments>>

\* client.Repositories.Get and repo.GetPrivate()
a_repo ==
    /\ pc = "a_repo"
    /\ \E ans \in RepoAnswers, post \in PostAnswers :
          LET repo == RepositoriesGet(ans)
              target == LastTwoParts(cur.SourceCode)
              c == [cur EXCEPT !.repoAns = ans, !.repoCalls = @ + 1,
                               !.repoOwner = target.owner,
                               !.repoName = target.name]
          IN  IF repo.err
              THEN CommentAndAbort(c, "Repository does not exist", post)
              ELSE IF repo.private
              THEN CommentAndAbort(c, "Repository is private", post)
              ELSE /\ cur' = c
                   /\ pc' = "a_approval"
                   /\ UNCHANGED <<exitCode, failed, failComments, postFailed>>
    /\ UNCHANGED <<missingInput, variant, args, prComments, idx, hasErrors, pastSetup,
                   processed, successComments>>

\* the approval scan, guarded by isMember == nil, then "Validation successful!"
a_approval ==
    /\ pc = "a_approval"
    /\ LET isMember == GetTeamMembershipBySlug(cur.memberAns)
       IN  IF NeedsApproval(isMember)
           THEN \/ /\ Abort(cur, "Error getting comments")
                   /\ UNCHANGED <<failComments, postFailed>>
                \/ IF ~HasApproval(prComments)
                   THEN \E post \in PostAnswers :
                           CommentAndAbort(cur, "Waiting for LGTM", post)
                   ELSE /\ cur' = [cur EXCEPT !.outcome = "pass",
                                              !.msg = "approved by LGTM"]
                        /\ exitCode' = 0
                        /\ pc' = "done"
                        /\ UNCHANGED <<failed, failComments, postFailed>>
           ELSE /\ cur' = [cur EXCEPT !.outcome = "pass"]
                /\ exitCode' = 0
                /\ pc' = "done"
                /\ UNCHANGED <<failed, failComments, postFailed>>
    /\ UNCHANGED <<missingInput, variant, args, prComments, idx, hasErrors, pastSetup,
                   processed, successComments>>

----------------------------------------------------------------------------
(* src/main.go:123-260, the program that lists the changed files itself *)

RECURSIVE ScanLines(_, _)
ScanLines(lines, key) ==
    IF lines = <<>> THEN <<>>
    ELSE LET line == TrimSpace(Head(lines))
         IN  IF HasPrefix(line, <<key>>)
             THEN TrimSpace(TrimPrefix(line, <<key>>))
             ELSE ScanLines(Tail(lines), key)

extractTeamName(content) == ScanLines(content, "team:")

extractSourceRepo(content) == ScanLines(content, "source-code:")

InNamespacesDir(filename) == HasPrefix(filename, <<"namespaces/">>)

\* the parts of the reference once "https://github.com/" is stripped
SourceRepoParts(sourceRepo) == Split(TrimPrefix(sourceRepo, GitHubPrefix))

\* a slip that only rejects references with too many segments
InvalidSourceRepoTooMany(sourceRepo) == Len(SourceRepoParts(sourceRepo)) > 2

InvalidSourceRepo(sourceRepo) == Len(SourceRepoParts(sourceRepo)) # 2

NotActive(state) == state # "active"

\* token == "" || prNumber == "" || orgName == ""
InputsMissing(missing) == missing \in {"token", "pr", "organization"}

\* the test of the required inputs and its os.Exit(1)
b_inputs ==
    /\ pc = "b_inputs"
    /\ IF InputsMissing(missingInput)
       THEN pc' = "done" /\ exitCode' = 1
       ELSE pc' = "b_getPR" /\ exitCode' = exitCode
    /\ UNCHANGED <<missingInput, variant, args, prComments, idx, cur, hasErrors, pastSetup,
                   processed, failed, failComments, successComments, postFailed>>

\* client.PullRequests.Get
b_getPR ==
    /\ pc = "b_getPR"
    /\ \E ok \in BOOLEAN :
          IF ok THEN pc' = "b_listFiles" /\ exitCode' = exitCode
                ELSE pc' = "done" /\ exitCode' = 1
    /\ UNCHANGED <<missingInput, variant, args, prComments, idx, cur, hasErrors, pastSetup,
                   processed, failed, failComments, successComments, postFailed>>

\* client.PullRequests.ListFiles
b_listFiles ==
    /\ pc = "b_listFiles"
    /\ \E ok \in BOOLEAN :
          IF ok THEN pc' = "b_loop" /\ exitCode' = exitCode /\ pastSetup' = TRUE
                ELSE pc' = "done" /\ exitCode' = 1 /\ pastSetup' = pastSetup
    /\ UNCHANGED <<missingInput, variant, args, prComments, idx, cur, hasErrors,
                   processed, failed, failComments, successComments, postFailed>>

\* head of `for _, file := range files`, the directory filter, and the
\* "Validation successful!" return after the last file
b_loop ==
    /\ pc = "b_loop"
    /\ IF idx > Len(args)
       THEN /\ pc' = "done"
            /\ exitCode' = 0
            /\ UNCHANGED <<idx, cur, processed>>
       ELSE IF ~InNamespacesDir(args[idx])
       THEN /\ idx' = idx + 1
            /\ UNCHANGED <<pc, cur, processed, exitCode>>
       ELSE /\ pc' = "b_getContents"
            /\ cur' = [NoFile EXCEPT !.file = idx, !.outcome = "running"]
            /\ processed' = processed \cup {idx}
            /\ UNCHANGED <<idx, exitCode>>
    /\ UNCHANGED <<missingInput, variant, args, prComments, hasErrors, pastSetup,
                   failed, failComments, successComments, postFailed>>

\* client.Repositories.GetContents and content.GetContent(): an error of
\* either is printed and the loop continues with the next file
b_getContents ==
    /\ pc = "b_getContents"
    /\ \/ \E msg \in {"Error getting file content", "Error decoding content"} :
             /\ cur' = [cur EXCEPT !.outcome = "skipped", !.msg = msg]
             /\ idx' = idx + 1
             /\ pc' = "b_loop"
       \/ \E team \in TeamValues \cup {Absent},
             source \in SourceValues \cup {Absent} :
             /\ cur' = [cur EXCEPT !.readOK = TRUE, !.parsed = TRUE,
                                   !.declTeam = team, !.declSource = source]
             /\ pc' = "b_team"
             /\ idx' = idx
    /\ UNCHANGED <<missingInput, variant, args, prComments, hasErrors, exitCode, pastSetup,
                   processed, failed, failComments, successComments, postFailed>>

\* extractTeamName and the empty test
b_team ==
    /\ pc = "b_team"
    /\ LET teamName == extractTeamName(Doc(cur.declTeam, cur.declSource))
           c == [cur EXCEPT !.Team = teamName]
       IN  IF teamName = <<>>
           THEN Abort(c, "No team annotation found")
           ELSE /\ cur' = c
                /\ pc' = "b_member"
                /\ UNCHANGED <<exitCode, failed>>
    /\ UNCHANGED <<missingInput, variant, args, prComments, idx, hasErrors, pastSetup,
                   processed, failComments, successComments, postFailed>>

\* client.Teams.GetTeamMembershipBySlug and membership.GetState() != "active"
b_member ==
    /\ pc = "b_member"
    /\ \E ans \in MemberAnswers :
          LET membership == GetTeamMembershipBySlug(ans)
              c == [cur EXCEPT !.memberAns = ans, !.memberCalls = @ + 1]
          IN  IF membership.err
              THEN Abort(c, "Error checking team membership")
              ELSE IF NotActive(membership.membership)
              THEN Abort(c, "User is not an active member of team")
              ELSE /\ cur' = [c EXCEPT !.gate = "passed"]
                   /\ pc' = "b_source"
                   /\ UNCHANGED <<exitCode, failed>>
    /\ UNCHANGED <<missingInput, variant, args, prComments, idx, hasErrors, pastSetup,
                   processed, failComments, successComments, postFailed>>

\* extractSourceRepo, the empty test, and the format test
b_source ==
    /\ pc = "b_source"
    /\ LET sourceRepo == extractSourceRepo(Doc(cur.declTeam, cur.declSource))
           c == [cur EXCEPT !.SourceCode = sourceRepo]
       IN  IF sourceRepo = <<>>
           THEN Abort(c, "No source-code annotation found")
           ELSE IF InvalidSourceRepo(sourceRepo)
           THEN Abort(c, "Invalid source-code URL format")
           ELSE /\ cur' = c
                /\ pc' = "b_repo"
                /\ UNCHANGED <<exitCode, failed>>
    /\ UNCHANGED <<missingInput, variant, args, prComments, idx, hasErrors, pastSetup,
                   processed, failComments, successComments, postFailed>>

\* client.Repositories.Get(parts[0], parts[1]) and repo.GetPrivate()
b_repo ==
    /\ pc = "b_repo"
    /\ LET parts == SourceRepoParts(cur.SourceCode)
       IN  IF Len(parts) < 2
           THEN \* parts[1] out of range: the Go runtime panics, exit status 2
                /\ cur' = [cur EXCEPT !.outcome = "fail",
                                      !.msg = "panic: index out of range"]
                /\ failed' = failed \cup {idx}
                /\ exitCode' = 2
                /\ pc' = "done"
                /\ idx' = idx
           ELSE \E ans \in RepoAnswers :
                   LET repo == RepositoriesGet(ans)
                       c == [cur EXCEPT !.repoAns = ans, !.repoCalls = @ + 1,
                                        !.repoOwner = parts[1],
                                        !.repoName = parts[2]]
                   IN  IF repo.err
                       THEN /\ Abort(c, "Source code repository does not exist or is not accessible")
                            /\ idx' = idx
                       ELSE IF repo.private
                       THEN /\ Abort(c, "Source code repository must be public")
                            /\ idx' = idx
                       ELSE /\ cur' = [c EXCEPT !.outcome = "pass"]
                            /\ idx' = idx + 1
                            /\ pc' = "b_loop"
                            /\ UNCHANGED <<exitCode, failed>>
    /\ UNCHANGED <<missingInput, variant, args, prComments, hasErrors, pastSetup,
                   processed, failComments, successComments, postFailed>>

----------------------------------------------------------------------------
(* The specification *)

Init ==
    /\ missingInput \in RequiredInputs \cup {"none"}
    /\ variant \in {"validator", "lgtm", "api"}
    /\ pc = CASE variant = "validator" -> "v_readEvent"
              [] variant = "lgtm" -> "a_read"
              [] variant = "api" -> "b_inputs"
    /\ IF variant = "lgtm"
       THEN /\ args = <<TestNamespacePath>>
            /\ prComments \in SeqsUpTo(CommentValues, MaxComments)
       ELSE /\ args \in SeqsUpTo(Paths, MaxFiles)
            /\ prComments = <<>>
    /\ idx = 1
    /\ cur = IF variant = "lgtm" THEN [NoFile EXCEPT !.file = 1] ELSE NoFile
    /\ hasErrors = FALSE
    /\ exitCode = -1
    /\ pastSetup = FALSE
    /\ processed = {}
    /\ failed = {}
    /\ failComments = [i \in 1..Len(args) |-> 0]
    /\ successComments = 0
    /\ postFailed = FALSE

Next ==
    \/ v_readEvent
    \/ v_parseEvent
    \/ v_loop
    \/ v_read
    \/ v_parse
    \/ v_team
    \/ v_source
    \/ v_member
    \/ v_repo
    \/ v_finish
    \/ v_exit
    \/ a_read
    \/ a_parse
    \/ a_getPR
    \/ a_member
    \/ a_format
    \/ a_repo
    \/ a_approval
    \/ b_inputs
    \/ b_getPR
    \/ b_listFiles
    \/ b_loop
    \/ b_getContents
    \/ b_team
    \/ b_member
    \/ b_source
    \/ b_repo

Spec == Init /\ [][Next]_vars

----------------------------------------------------------------------------
(* Shared vocabulary of the properties *)

ValidatorDone == variant = "validator" /\ pc = "done" /\ pastSetup

\* the arguments the validator's suffix filter lets through
YAMLFiles == { i \in DOMAIN args : IsYAMLPath(args[i]) }

\* the listed files the api program's directory filter lets through
NamespaceFiles == { i \in DOMAIN args : InNamespacesDir(args[i]) }

\* the current file has run through its checks
Finished == cur.outcome \in {"pass", "fail"}

----------------------------------------------------------------------------
(* C1 *)

\* C1: a validator run that got past setup exits with status 0 exactly when
\* no processed file produced a validation failure, and with status 1 when
\* at least one did; a file that ended in a failing branch is among the
\* failed ones and a file that passed every check is not.
C1_ExitStatusIffNoFailure ==
    /\ ValidatorDone =>
          /\ exitCode \in {0, 1}
          /\ exitCode = 0 <=> failed = {}
          /\ failed # {} => exitCode = 1
    /\ (variant = "validator" /\ cur.outcome = "fail") => cur.file \in failed
    /\ (variant = "validator" /\ cur.outcome = "pass") => cur.file \notin failed
    /\ variant = "validator" => failed \subseteq processed

\* a finished run of two files where the first failed and the second passed
C1_Witness ==
    /\ ValidatorDone
    /\ processed = {1, 2}
    /\ failed = {1}
    /\ cur.outcome = "pass"
    /\ exitCode = 1

----------------------------------------------------------------------------
(* C2 *)

\* C2: in a validator run the comments attempted are one failure comment
\* for each failed file, attempted while the loop is at that file (files
\* not yet reached have none, files already left keep exactly theirs), and
\* one success comment after the last file exactly when no file failed; no
\* success comment in a run that exits 1, and never two.
C2_CommentsExact ==
    variant = "validator" =>
       /\ \A i \in DOMAIN args :
             failComments[i] = IF i \in failed THEN 1 ELSE 0
       /\ \A i \in DOMAIN args : i >= idx => failComments[i] = 0
       /\ successComments \in {0, 1}
       /\ successComments = 1 =>
             /\ pc \in {"v_exit", "done"}
             /\ idx > Len(args)
             /\ failed = {}
       /\ ValidatorDone => (successComments = 1 <=> failed = {})
       /\ exitCode = 1 => successComments = 0

\* a finished run with a failed and a passed file: one failure comment, no
\* success comment
C2_Witness ==
    /\ ValidatorDone
    /\ processed = {1, 2}
    /\ failed = {2}
    /\ failComments[1] = 0
    /\ failComments[2] = 1
    /\ successComments = 0

----------------------------------------------------------------------------
(* C3 *)

\* C3 as stated: a validation failure never stops the run, in the validator
\* and in the api program alike: a finished run has processed every file
\* its filter lets through.
C3_AsStated ==
    /\ ValidatorDone => processed = YAMLFiles
    /\ (variant = "api" /\ pc = "done" /\ pastSetup) => processed = NamespaceFiles

\* C3 amended: in the validator a failure never stops the run, every
\* argument ending in .yaml or .yml is processed whatever happened to the
\* files before it. In the api program only a content error is passed
\* over: the first missing annotation, membership failure, format error or
\* repository failure exits with status 1 at that file, and the files after
\* it are not processed.
C3_FailureStopsOnlyApiRun ==
    /\ ValidatorDone => processed = YAMLFiles
    /\ (variant = "api" /\ pc = "done" /\ pastSetup) =>
          IF failed = {}
          THEN processed = NamespaceFiles /\ exitCode = 0
          ELSE /\ failed = {idx}
               /\ processed = { i \in NamespaceFiles : i <= idx }
               /\ exitCode = 1

\* a validator run whose first file failed and whose second file was still
\* processed
C3_Witness ==
    /\ ValidatorDone
    /\ 1 \in failed
    /\ 2 \in processed
    /\ cur.file = 2
    /\ cur.outcome = "fail"

----------------------------------------------------------------------------
(* C4 *)

\* the document's team annotation is missing, empty or only whitespace
TeamBlank ==
    cur.parsed /\ (cur.declTeam = Absent \/ TrimSpace(cur.declTeam) = <<>>)

\* C4 as stated: a file whose team annotation is missing, empty or only
\* whitespace fails with the "team annotation missing" message and no
\* membership lookup is made for it (validator and api program).
C4_AsStated ==
    (variant \in {"validator", "api"} /\ TeamBlank) =>
       /\ cur.memberCalls = 0
       /\ Finished =>
             /\ cur.outcome = "fail"
             /\ cur.msg \in {"Team annotation is missing", "No team annotation found"}

----------------------------------------------------------------------------
(* C5 *)

\* the document's source-code annotation is missing or empty
SourceMissing == cur.parsed /\ cur.declSource \in {Absent, <<>>}

----------------------------------------------------------------------------
(* C6 *)

\* a reference that is there and has fewer than two path segments once the
\* host prefix is stripped
TooFewSegments(ref) ==
    /\ ref # Absent
    /\ TrimSpace(ref) # <<>>
    /\ Len(SourceRepoParts(ref)) < 2

----------------------------------------------------------------------------
(* C7 *)

\* C7 as stated: the membership gate lets a file through only when the
\* lookup answered 200 with the state active (validator and api program).
C7_AsStated ==
    (variant \in {"validator", "api"} /\ cur.gate = "passed") =>
       /\ cur.memberAns.status = StatusOK
       /\ cur.memberAns.state = "active"

----------------------------------------------------------------------------
(* C8 *)

\* C8 as stated: a file passes the repository check only when the lookup
\* answered 200 with the private flag unset; a not-found answer and a
\* private repository both fail, with different messages.
C8_AsStated ==
    /\ cur.outcome = "pass" =>
          /\ cur.repoCalls = 1
          /\ cur.repoAns.status = StatusOK
          /\ ~cur.repoAns.private
    /\ (Finished /\ cur.repoCalls = 1 /\ cur.repoAns.status = StatusNotFound) =>
          /\ cur.outcome = "fail"
          /\ cur.msg \in {"Repository not found", "Repository does not exist",
                          "Source code repository does not exist or is not accessible"}
    /\ (Finished /\ cur.repoCalls = 1 /\ cur.repoAns.status = StatusOK
           /\ cur.repoAns.private) =>
          /\ cur.outcome = "fail"
          /\ cur.msg \in {"Repository is private",
                          "Source code repository must be public"}

----------------------------------------------------------------------------
(* C9 *)

\* some comment on the pull request contains LGTM and its author is an
\* active member of the team
ApprovingCommentExists ==
    \E i \in DOMAIN prComments :
       /\ ContainsLGTM(prComments[i].body)
       /\ prComments[i].ans.status = StatusOK
       /\ prComments[i].ans.state = "active"

\* the author's lookup was made and did not answer "active"
AuthorNotActive ==
    /\ cur.memberCalls = 1
    /\ \/ cur.memberAns.status = StatusNotFound
       \/ cur.memberAns.status = StatusOK /\ cur.memberAns.state # "active"

\* no repository lookup of the run answered anything but "public"
RepositoryPublic ==
    cur.repoCalls = 0 \/ (cur.repoAns.status = StatusOK /\ ~cur.repoAns.private)

\* C9 as stated: in the lgtm program, when the author is not an active
\* member, an approving comment exists, the reference is well-formed and
\* the repository is public, the run ends in success through the approval
\* scan.
C9_AsStated ==
    ( /\ variant = "lgtm"
      /\ pc = "done"
      /\ AuthorNotActive
      /\ ApprovingCommentExists
      /\ ~InvalidSourceCodeURL(cur.SourceCode)
      /\ RepositoryPublic ) =>
       /\ exitCode = 0
       /\ cur.msg = "approved by LGTM"

----------------------------------------------------------------------------
(* C10 *)

\* how a validator file ends, from the answers of the file system, the
\* parser and the two lookups alone
Verdict(c) ==
    IF \/ ~c.readOK
       \/ ~c.parsed
       \/ c.Team = <<>>
       \/ c.SourceCode = <<>>
       \/ c.memberAns.status # StatusOK
       \/ c.repoAns.status # StatusOK
    THEN "fail"
    ELSE "pass"

\* C10: in the validator neither the exit status nor the set of processed
\* files depends on the answers to the comment posts: a file's outcome is
\* the one its read, parse, annotation and lookup answers give, the failure
\* flag is set exactly when a file failed, the files processed are the YAML
\* arguments the loop has reached, and the exit status follows the failed
\* files, whether or not a post failed.
C10_ExitIndependentOfPosts ==
    variant = "validator" =>
       /\ Finished => cur.outcome = Verdict(cur)
       /\ hasErrors <=> failed # {}
       /\ processed = { i \in YAMLFiles :
                           i < idx \/ (i = idx /\ cur.file = idx) }
       /\ ValidatorDone => exitCode = IF failed = {} THEN 0 ELSE 1

\* a run whose only comment, the success comment, failed to post and that
\* still exits with status 0 after processing its file
C10_Witness ==
    /\ ValidatorDone
    /\ postFailed
    /\ processed # {}
    /\ failed = {}
    /\ successComments = 1
    /\ exitCode = 0

----------------------------------------------------------------------------
(* C11 *)

\* C11: a validator run whose event payload cannot be read or parsed ends
\* with status 1 before any file is processed: no file was started, no
\* lookup was made, no failure comment and no success comment was posted.
C11_FatalEventError ==
    (variant = "validator" /\ ~pastSetup) =>
       /\ pc \in {"v_readEvent", "v_parseEvent", "done"}
       /\ pc = "done" => exitCode = 1
       /\ processed = {}
       /\ failed = {}
       /\ cur = NoFile
       /\ \A i \in DOMAIN args : failComments[i] = 0
       /\ successComments = 0
       /\ ~postFailed
       /\ ~hasErrors

\* a run given two YAML files that ended on the event payload
C11_Witness ==
    /\ variant = "validator"
    /\ pc = "done"
    /\ ~pastSetup
    /\ exitCode = 1
    /\ YAMLFiles = {1, 2}
    /\ processed = {}

----------------------------------------------------------------------------
(* C12 *)

\* the failure texts that tell the reader the user is not a member
NotMemberMessages ==
    { "Team not found or user is not a member",
      "is not a member of team. Need LGTM" }

\* the current file ended on its membership lookup
FailedAtMembership ==
    /\ cur.memberCalls = 1
    /\ cur.gate # "passed"
    /\ cur.outcome = "fail"

\* C12 as stated: the membership checker (validator and lgtm program)
\* reports a not-found answer as the user not being a member, and any
\* other failed lookup (a transport error, a status other than 200 and
\* 404) with a different text.
C12_AsStated ==
    (variant \in {"validator", "lgtm"} /\ FailedAtMembership) =>
       IF cur.memberAns.status = StatusNotFound
       THEN cur.msg \in NotMemberMessages
       ELSE cur.msg \notin NotMemberMessages

----------------------------------------------------------------------------
(* C13 *)

\* a reference given as owner/repo or as https://github.com/owner/repo
PairOrURL(ref) ==
    /\ ref # Absent
    /\ Len(Split(TrimPrefix(ref, GitHubPrefix))) = 2
    /\ \A i \in 1..2 : Split(TrimPrefix(ref, GitHubPrefix))[i] # <<>>

\* C13 as stated: for a reference given as an owner/repo pair or as a URL
\* (validator and lgtm program), the repository lookup is made for the
\* last two path segments of the reference as owner and name, and a file
\* that passed the membership gate gets that lookup in both forms.
C13_AsStated ==
    (variant \in {"validator", "lgtm"} /\ cur.parsed /\ PairOrURL(cur.declSource)) =>
       /\ cur.repoCalls = 1 =>
             [owner |-> cur.repoOwner, name |-> cur.repoName]
                = LastTwoParts(cur.declSource)
       /\ (Finished /\ cur.gate = "passed") => cur.repoCalls = 1

----------------------------------------------------------------------------
(* C14 *)

\* what the state shows of hosting-API calls made by the run: a lookup for
\* the current file, a comment post, or a pull-request call that succeeded
ApiCallSeen ==
    \/ cur.memberCalls > 0
    \/ cur.repoCalls > 0
    \/ \E i \in DOMAIN args : failComments[i] > 0
    \/ successComments > 0
    \/ variant \in {"lgtm", "api"} /\ pastSetup

\* C14 as stated: a run started without a required input ends with status
\* 1, makes no hosting-API call and posts no success comment.
C14_AsStated ==
    missingInput # "none" =>
       /\ ~ApiCallSeen
       /\ successComments = 0
       /\ pc = "done" => exitCode = 1

----------------------------------------------------------------------------
(* C15 *)

\* the failures of the validator's loop body, in the order of its checks
BeforeLookupMessages ==
    { "Failed to read file", "Invalid YAML", "Team annotation is missing",
      "Source code repository annotation is missing" }

MembershipMessages ==
    { "Failed to check team membership",
      "Team not found or user is not a member",
      "Failed to check team membership. Status" }

RepositoryMessages ==
    { "Failed to check repository status", "Repository not found",
      "Failed to check repository status. Status" }

\* C15: within one file of the validator the checks run in a fixed order
\* and stop at the first failure: at most one lookup of each kind, the
\* membership lookup only for a parsed file with both annotations, the
\* repository lookup only after the membership check passed, nothing looked
\* up after the check that failed, and at most one failure comment per
\* file, posted when the file fails and not before.
C15_FirstFailureEndsFile ==
    variant = "validator" =>
       /\ cur.memberCalls <= 1
       /\ cur.repoCalls <= 1
       /\ cur.memberCalls = 1 =>
             /\ cur.readOK /\ cur.parsed
             /\ ~TeamAnnotationMissing(cur)
             /\ ~SourceCodeAnnotationMissing(cur)
       /\ cur.repoCalls = 1 =>
             /\ cur.memberCalls = 1
             /\ cur.gate = "passed"
             /\ validateTeamMembership(cur.memberAns) = "nil"
       /\ cur.outcome = "fail" =>
             /\ cur.msg \in BeforeLookupMessages \cup MembershipMessages
                               \cup RepositoryMessages
             /\ cur.msg \in BeforeLookupMessages =>
                   cur.memberCalls = 0 /\ cur.repoCalls = 0
             /\ cur.msg \in MembershipMessages =>
                   cur.memberCalls = 1 /\ cur.repoCalls = 0
             /\ cur.msg \in RepositoryMessages => cur.repoCalls = 1
             /\ failComments[cur.file] = 1
       /\ cur.outcome \in {"running", "pass"} =>
             cur.msg = "" /\ failComments[cur.file] = 0
       /\ \A i \in DOMAIN args : failComments[i] <= 1

\* a file that passed the membership check and failed the repository
\* lookup, with its one failure comment
C15_Witness ==
    /\ variant = "validator"
    /\ cur.outcome = "fail"
    /\ cur.msg = "Repository not found"
    /\ cur.gate = "passed"
    /\ cur.memberCalls = 1
    /\ cur.repoCalls = 1
    /\ failComments[cur.file] = 1

====
